---- MODULE Spec2Model ----
(***************************************************************************)
(* Model of the dictionary entry search of webonary-cloud-api:             *)
(*   lambda/searchEntries (src/unnamed/part_000): handler, searchEntries   *)
(*   lambda/mongo.ts: connectToDB and its cached client                    *)
(* Strings that the code inspects character by character (the search text, *)
(* semantic domain abbreviations, headword and definition values) are      *)
(* sequences of one-character strings.  The document store is modelled by  *)
(* what it does with the filters, pipelines and cursor options it is given.*)
(***************************************************************************)
EXTENDS Integers, Sequences, FiniteSets, TLC

VARIABLES
    store,      \* the dictionary entries collection, in the store's natural order
    args,       \* SearchEntriesArguments of the invocation in progress
    pc,         \* position of handler/searchEntries
    call,       \* the store operation searchEntries has issued, if any
    nCalls,     \* number of store operations issued by this invocation
    response,   \* the Response.Response handed to the callback
    raised,     \* the error that was thrown inside the try block, if any
    cachedDb,   \* mongo.ts: the module level cached client
    connected,  \* clients for which isConnected() is true
    nextClient, \* the next client MongoClient.connect will produce
    cpc,        \* position of each connectToDB call
    seen,       \* what each connectToDB call observed at its cache test
    ret,        \* the client each connectToDB call resolved to
    opened,     \* number of MongoClient.connect invocations made by each call
    probe,      \* inputs of the pure filter checks
    matched     \* result of applying the filter to the probe

vars == <<store, args, pc, call, nCalls, response, raised, cachedDb, connected,
          nextClient, cpc, seen, ret, opened, probe, matched>>

----------------------------------------------------------------------------
(* Bounds *)
MaxEntries == 2      \* documents in the collection
MaxPageNumber == 2   \* largest raw pageNumber a request carries
MaxAbbrevLen == 5    \* longest stored semantic domain abbreviation
MaxQueryLen == 2     \* longest semDomAbbrev / search text of a probe
MaxTagged == 2       \* tagged values per field of a probed entry
MaxCalls == 3        \* concurrent connectToDB calls
MaxClients == 3      \* clients MongoClient.connect can hand out

----------------------------------------------------------------------------
(* JavaScript values *)
undefined == "undefined"
\* an absent string-of-characters parameter
undefinedStr == <<"undefined">>

Min(a, b) == IF a < b THEN a ELSE b
Max(a, b) == IF a > b THEN a ELSE b

RECURSIVE SeqsUpTo(_, _)
SeqsUpTo(S, n) ==
    IF n = 0 THEN {<<>>}
    ELSE LET shorter == SeqsUpTo(S, n - 1)
         IN shorter \cup {Append(s, c) : s \in {t \in shorter : Len(t) = n - 1}, c \in S}

\* JavaScript truthiness of an optional string parameter
Truthy(s) == s # undefined /\ s # ""
TruthyStr(s) == s # undefinedStr /\ s # <<>>

----------------------------------------------------------------------------
(* Regular expressions as the store and JavaScript evaluate them.  A pattern
   built from a string keeps the string's characters as pattern atoms: "."
   matches any character, every other character of the alphabet matches
   itself.  Option i compares letters without regard to case. *)
Lower(c) == CASE c = "A" -> "a" [] c = "C" -> "c" [] OTHER -> c

AtomMatches(atom, c, ignoreCase) ==
    \/ atom = "."
    \/ IF ignoreCase THEN Lower(atom) = Lower(c) ELSE atom = c

\* pattern matches value at offset i (1-based)
MatchesAt(pattern, value, i, ignoreCase) ==
    /\ i + Len(pattern) - 1 <= Len(value)
    /\ \A k \in 1..Len(pattern) : AtomMatches(pattern[k], value[i + k - 1], ignoreCase)

\* regex.test(value): anchored patterns start with ^
RegexTest(regex, value) ==
    IF regex.anchored
    THEN MatchesAt(regex.atoms, value, 1, regex.ignoreCase)
    ELSE \E i \in 1..(Len(value) + 1) : MatchesAt(regex.atoms, value, i, regex.ignoreCase)

\* value contains text as a substring, letters compared without regard to case
ContainsIgnoreCase(value, text) ==
    \E i \in 1..(Len(value) + 1) :
        /\ i + Len(text) - 1 <= Len(value)
        /\ \A k \in 1..Len(text) : Lower(value[i + k - 1]) = Lower(text[k])

\* v is a followed by "." and anything
IsDottedExtension(v, a) ==
    /\ Len(v) > Len(a)
    /\ SubSeq(v, 1, Len(a)) = a
    /\ v[Len(a) + 1] = "."

----------------------------------------------------------------------------
(* Constants of ./db and paths of ./entry.model *)
DB_MAX_DOCUMENTS_PER_CALL == 100
DB_COLLATION_LOCALE_DEFAULT_FOR_INSENSITIVITY == "en"
DB_COLLATION_STRENGTH_FOR_CASE_INSENSITIVITY == "caseInsensitive"
DB_COLLATION_STRENGTH_FOR_SENSITIVITY == "sensitive"
DB_COLLATION_LOCALES == {"en", "fr"}

\* a key that a filter or a cursor does not carry
absent == "absent"

\* utils.getDbSkip
getDbSkip(pageNumber, pageLimit) == (pageNumber - 1) * pageLimit

----------------------------------------------------------------------------
(* The filters searchEntries builds *)

\* const primaryFilter = { dictionaryId }, plus partOfSpeech once line 115 ran
PrimaryFilter(a, withPartOfSpeech) ==
    [dictionaryId |-> a.dictionaryId,
     partOfSpeech |-> IF withPartOfSpeech /\ Truthy(a.partOfSpeech)
                      THEN a.partOfSpeech ELSE absent]

\* { $in: [semDomAbbrev, new RegExp(`^${semDomAbbrev}.`)] }
AbbreviationRegex(semDomAbbrev) ==
    [exact |-> semDomAbbrev,
     regex |-> [atoms |-> semDomAbbrev \o <<".">>, anchored |-> TRUE, ignoreCase |-> FALSE]]

\* the dbFind of the semantic domains search
SemDomFind(a) ==
    IF TruthyStr(a.semDomAbbrev)
    THEN IF Truthy(a.lang)
         THEN [primary |-> PrimaryFilter(a, FALSE),
               clause |-> [kind |-> "semDomAbbrevElemMatch", lang |-> a.lang,
                           in |-> AbbreviationRegex(a.semDomAbbrev)]]
         ELSE [primary |-> PrimaryFilter(a, FALSE),
               clause |-> [kind |-> "semDomAbbrevValue",
                           in |-> AbbreviationRegex(a.semDomAbbrev)]]
    ELSE [primary |-> PrimaryFilter(a, FALSE),
          clause |-> [kind |-> "semDomNameValue", eq |-> a.text]]

\* const regexFilter = { $regex: args.text, $options: 'i' }
RegexFilter(a) == [atoms |-> a.text, anchored |-> FALSE, ignoreCase |-> TRUE]

\* langFilter
LangFilter(a) ==
    IF Truthy(a.lang)
    THEN LET langFieldToFilter ==
                 IF Truthy(a.mainLang) /\ a.mainLang = a.lang
                 THEN "mainHeadWord" ELSE "senses.definitionOrGloss"
         IN [kind |-> "elemMatch", field |-> langFieldToFilter, lang |-> a.lang,
             regex |-> RegexFilter(a)]
    ELSE [kind |-> "orValue", regex |-> RegexFilter(a)]

\* the collation locale chosen at lines 64 and 118-121
Locale(a) ==
    IF Truthy(a.lang) /\ a.lang \in DB_COLLATION_LOCALES
    THEN a.lang ELSE DB_COLLATION_LOCALE_DEFAULT_FOR_INSENSITIVITY

\* the collation strength chosen at lines 65 and 152-154
Strength(a) ==
    IF a.matchAccents = "1" THEN DB_COLLATION_STRENGTH_FOR_SENSITIVITY
    ELSE DB_COLLATION_STRENGTH_FOR_CASE_INSENSITIVITY

\* const $text = { $search: `"${text}"`, $language, $diacriticSensitive }
TextClause(a) ==
    [kind |-> "text", phrase |-> a.text, language |-> a.language,
     diacriticSensitive |-> (a.matchAccents = "1")]

NoCollation == [locale |-> absent, strength |-> absent]

----------------------------------------------------------------------------
(* The store operation each strategy issues.  A call is the operation, its
   filter stages and the cursor options it was given. *)

\* SemDomCall with the skip of the page after the requested one
SemDomCallNextPage(a) ==
    IF a.countTotalOnly = "1"
    THEN [branch |-> "semDom", op |-> "countDocuments", stages |-> <<SemDomFind(a)>>,
          collation |-> NoCollation, paged |-> FALSE, skip |-> 0, limit |-> 0]
    ELSE [branch |-> "semDom", op |-> "find", stages |-> <<SemDomFind(a)>>,
          collation |-> NoCollation, paged |-> TRUE,
          skip |-> a.pageNumber * a.pageLimit, limit |-> a.pageLimit]

SemDomCall(a) ==
    IF a.countTotalOnly = "1"
    THEN [branch |-> "semDom", op |-> "countDocuments", stages |-> <<SemDomFind(a)>>,
          collation |-> NoCollation, paged |-> FALSE, skip |-> 0, limit |-> 0]
    ELSE [branch |-> "semDom", op |-> "find", stages |-> <<SemDomFind(a)>>,
          collation |-> NoCollation,
          paged |-> TRUE,
          skip |-> getDbSkip(a.pageNumber, a.pageLimit), limit |-> a.pageLimit]

\* { $and: [primaryFilter, langFilter] }
DictionaryPartialSearch(a) ==
    [primary |-> PrimaryFilter(a, TRUE), clause |-> LangFilter(a)]

PartialCall(a) ==
    IF a.countTotalOnly = "1"
    THEN [branch |-> "partial", op |-> "countDocuments",
          stages |-> <<DictionaryPartialSearch(a)>>,
          collation |-> NoCollation, paged |-> FALSE, skip |-> 0, limit |-> 0]
    ELSE [branch |-> "partial", op |-> "find",
          stages |-> <<DictionaryPartialSearch(a)>>,
          collation |-> [locale |-> Locale(a), strength |-> Strength(a)],
          paged |-> TRUE,
          skip |-> getDbSkip(a.pageNumber, a.pageLimit), limit |-> a.pageLimit]

\* { ...primaryFilter, $text }
DictionaryFulltextSearch(a) ==
    [primary |-> PrimaryFilter(a, TRUE), clause |-> TextClause(a)]

NoPrimary == [dictionaryId |-> absent, partOfSpeech |-> absent]

\* FulltextScopedCall with the count taken from the paginated cursor
FulltextScopedCallPagedCount(a) ==
    [branch |-> "fulltextScoped", op |-> "aggregate",
     stages |-> <<DictionaryFulltextSearch(a),
                  [primary |-> NoPrimary, clause |-> LangFilter(a)]>>,
     collation |-> NoCollation, paged |-> TRUE,
     skip |-> getDbSkip(a.pageNumber, a.pageLimit), limit |-> a.pageLimit]

\* [{ $match: dictionaryFulltextSearch }, { $match: langFilter }]
FulltextScopedCall(a) ==
    LET dbFind == <<DictionaryFulltextSearch(a),
                    [primary |-> NoPrimary, clause |-> LangFilter(a)]>>
    IN IF a.countTotalOnly = "1"
       THEN [branch |-> "fulltextScoped", op |-> "aggregate", stages |-> dbFind,
             collation |-> NoCollation, paged |-> FALSE, skip |-> 0, limit |-> 0]
       ELSE [branch |-> "fulltextScoped", op |-> "aggregate", stages |-> dbFind,
             collation |-> NoCollation,
             paged |-> TRUE,
          skip |-> getDbSkip(a.pageNumber, a.pageLimit), limit |-> a.pageLimit]

FulltextUnscopedCall(a) ==
    IF a.countTotalOnly = "1"
    THEN [branch |-> "fulltextUnscoped", op |-> "countDocuments",
          stages |-> <<DictionaryFulltextSearch(a)>>,
          collation |-> NoCollation, paged |-> FALSE, skip |-> 0, limit |-> 0]
    ELSE [branch |-> "fulltextUnscoped", op |-> "find",
          stages |-> <<DictionaryFulltextSearch(a)>>,
          collation |-> NoCollation,
          paged |-> TRUE,
          skip |-> getDbSkip(a.pageNumber, a.pageLimit), limit |-> a.pageLimit]

\* SearchCall with matchPartial tested before searchSemDoms
SearchCallPartialFirst(a) ==
    IF a.matchPartial = "1" THEN PartialCall(a)
    ELSE IF a.searchSemDoms = "1" THEN SemDomCall(a)
    ELSE IF Truthy(a.lang) THEN FulltextScopedCall(a)
    ELSE FulltextUnscopedCall(a)

\* the branch structure of searchEntries
SearchCall(a) ==
    IF a.searchSemDoms = "1" THEN SemDomCall(a)
    ELSE IF a.matchPartial = "1" THEN PartialCall(a)
    ELSE IF Truthy(a.lang) THEN FulltextScopedCall(a)
    ELSE FulltextUnscopedCall(a)

----------------------------------------------------------------------------
(* The document store: how it evaluates the filters and cursors it is given *)

aAcute == "a_acute"   \* the letter a with an acute accent

\* accent folding of the text index and of insensitive collations
Fold(c) == IF c = aAcute THEN "a" ELSE c

\* an atomic name (language tag, part of speech, dictionary id) without case
FoldName(s) == CASE s = "N" -> "n" [] OTHER -> s

\* equality of two names under the cursor's collation
CollEq(x, y, collation) ==
    IF collation.strength = DB_COLLATION_STRENGTH_FOR_CASE_INSENSITIVITY
    THEN FoldName(x) = FoldName(y) ELSE x = y

\* equality of two character strings under the cursor's collation
CollEqStr(x, y, collation) ==
    IF collation.strength = DB_COLLATION_STRENGTH_FOR_CASE_INSENSITIVITY
    THEN /\ Len(x) = Len(y)
         /\ \A k \in 1..Len(x) : Lower(Fold(x[k])) = Lower(Fold(y[k]))
    ELSE x = y

\* { $in: [string, regex] } against one value
InMatches(in, value, collation) ==
    CollEqStr(value, in.exact, collation) \/ RegexTest(in.regex, value)

\* $text phrase search over the indexed values, stemming disabled
TextMatches(clause, value) ==
    /\ Len(value) = Len(clause.phrase)
    /\ \A k \in 1..Len(value) :
          IF clause.diacriticSensitive
          THEN Lower(value[k]) = Lower(clause.phrase[k])
          ELSE Lower(Fold(value[k])) = Lower(Fold(clause.phrase[k]))

\* the tagged array a dotted path reaches in an entry
Field(e, path) ==
    IF path = "mainHeadWord" THEN e.mainHeadWord ELSE e.definitionOrGloss

ClauseMatches(c, e, collation) ==
    CASE c.kind = "semDomAbbrevElemMatch" ->
            \E i \in DOMAIN e.semDomAbbrev :
                /\ CollEq(e.semDomAbbrev[i].lang, c.lang, collation)
                /\ InMatches(c.in, e.semDomAbbrev[i].value, collation)
      [] c.kind = "semDomAbbrevValue" ->
            \E i \in DOMAIN e.semDomAbbrev :
                InMatches(c.in, e.semDomAbbrev[i].value, collation)
      [] c.kind = "semDomNameValue" ->
            \E i \in DOMAIN e.semDomName :
                CollEqStr(e.semDomName[i].value, c.eq, collation)
      [] c.kind = "elemMatch" ->
            \E i \in DOMAIN Field(e, c.field) :
                /\ CollEq(Field(e, c.field)[i].lang, c.lang, collation)
                /\ RegexTest(c.regex, Field(e, c.field)[i].value)
      [] c.kind = "orValue" ->
            \/ \E i \in DOMAIN e.mainHeadWord : RegexTest(c.regex, e.mainHeadWord[i].value)
            \/ \E i \in DOMAIN e.definitionOrGloss :
                   RegexTest(c.regex, e.definitionOrGloss[i].value)
      [] c.kind = "text" ->
            \/ \E i \in DOMAIN e.mainHeadWord : TextMatches(c, e.mainHeadWord[i].value)
            \/ \E i \in DOMAIN e.definitionOrGloss :
                   TextMatches(c, e.definitionOrGloss[i].value)

PrimaryMatches(p, e, collation) ==
    /\ p.dictionaryId = absent \/ CollEq(e.dictionaryId, p.dictionaryId, collation)
    /\ p.partOfSpeech = absent \/ CollEq(e.partOfSpeech, p.partOfSpeech, collation)

FilterMatches(f, e, collation) ==
    PrimaryMatches(f.primary, e, collation) /\ ClauseMatches(f.clause, e, collation)

\* the documents that pass every stage, in the collection's order
MatchSeq(stages, collation, coll) ==
    LET Passes(e) == \A k \in DOMAIN stages : FilterMatches(stages[k], e, collation)
    IN SelectSeq(coll, Passes)

\* cursor.skip(n) and cursor.limit(n); limit 0 means no limit
Skip(s, n) == SubSeq(s, n + 1, Len(s))
Limit(s, n) == IF n = 0 THEN s ELSE SubSeq(s, 1, Min(n, Len(s)))

\* what the store answers to a call: a number for countDocuments, else documents
Execute(c, coll) ==
    LET all == MatchSeq(c.stages, c.collation, coll)
        page == IF c.paged THEN Limit(Skip(all, c.skip), c.limit) ELSE all
    IN IF c.op = "countDocuments"
       THEN [count |-> Len(all), docs |-> <<>>]
       ELSE [count |-> 0, docs |-> page]

----------------------------------------------------------------------------
(* Response envelopes of ./response *)
NoResponse == [kind |-> "none", payload |-> "none", count |-> 0, entries |-> <<>>,
               errorType |-> "", errorMessage |-> ""]
SuccessCount(n) == [NoResponse EXCEPT !.kind = "Success", !.payload = "count", !.count = n]
SuccessEntries(es) ==
    [NoResponse EXCEPT !.kind = "Success", !.payload = "entries", !.entries = es]
\* Response.notFound([{}])
NotFound == [NoResponse EXCEPT !.kind = "NotFound", !.payload = "placeholder"]
Failure(err) ==
    [NoResponse EXCEPT !.kind = "Failure", !.payload = "error",
                       !.errorType = err.name, !.errorMessage = err.message]
BadRequest == [NoResponse EXCEPT !.kind = "BadRequest", !.payload = "message"]

\* lines 237-240
ResultShaper(entries) ==
    IF Len(entries) = 0 THEN NotFound ELSE SuccessEntries(entries)

\* what searchEntries returns once the store has answered its call
SemDomResponse(a, answer) ==
    IF a.countTotalOnly = "1" THEN SuccessCount(answer.count)
    ELSE SuccessEntries(answer.docs)

PartialResponse(a, answer) ==
    IF a.countTotalOnly = "1" THEN SuccessCount(answer.count)
    ELSE ResultShaper(answer.docs)

\* FulltextScopedResponse without the count-only return
FulltextScopedResponseShaped(a, answer) == ResultShaper(answer.docs)

FulltextScopedResponse(a, answer) ==
    IF a.countTotalOnly = "1" THEN SuccessCount(Len(answer.docs))
    ELSE ResultShaper(answer.docs)

FulltextUnscopedResponse(a, answer) ==
    IF a.countTotalOnly = "1" THEN SuccessCount(answer.count)
    ELSE ResultShaper(answer.docs)

SearchResponse(a, answer) ==
    IF a.searchSemDoms = "1" THEN SemDomResponse(a, answer)
    ELSE IF a.matchPartial = "1" THEN PartialResponse(a, answer)
    ELSE IF Truthy(a.lang) THEN FulltextScopedResponse(a, answer)
    ELSE FulltextUnscopedResponse(a, answer)

----------------------------------------------------------------------------
(* The collection and the requests *)

Tagged(lang, value) == [lang |-> lang, value |-> value]

\* the documents a collection is made of
EntryPool ==
    { [id |-> 1, dictionaryId |-> "d1", partOfSpeech |-> "n",
       mainHeadWord |-> <<Tagged("fr", <<"a">>)>>,
       definitionOrGloss |-> <<Tagged("en", <<"b">>)>>,
       semDomAbbrev |-> <<Tagged("en", <<"1">>)>>,
       semDomName |-> <<Tagged("en", <<"a">>)>>],
      [id |-> 2, dictionaryId |-> "d1", partOfSpeech |-> "N",
       mainHeadWord |-> <<Tagged("fr", <<"b", "a">>)>>,
       definitionOrGloss |-> <<Tagged("en", <<"a">>)>>,
       semDomAbbrev |-> <<Tagged("en", <<"1", ".", "2">>)>>,
       semDomName |-> <<Tagged("en", <<"b">>)>>],
      [id |-> 3, dictionaryId |-> "d1", partOfSpeech |-> "n",
       mainHeadWord |-> <<Tagged("fr", <<aAcute>>)>>,
       definitionOrGloss |-> <<Tagged("fr", <<"A">>)>>,
       semDomAbbrev |-> <<Tagged("fr", <<"1", "0">>)>>,
       semDomName |-> <<Tagged("en", <<"a">>)>>],
      [id |-> 4, dictionaryId |-> "d2", partOfSpeech |-> "n",
       mainHeadWord |-> <<Tagged("fr", <<"a">>)>>,
       definitionOrGloss |-> <<Tagged("en", <<"a">>)>>,
       semDomAbbrev |-> <<Tagged("en", <<"1">>)>>,
       semDomName |-> <<Tagged("en", <<"a">>)>>] }

\* collections of at most MaxEntries distinct documents
Stores ==
    {s \in SeqsUpTo(EntryPool, MaxEntries) :
        \A i, j \in DOMAIN s : i # j => s[i].id # s[j].id}

Errors == { [name |-> "MongoNetworkError", message |-> "connection refused"],
            [name |-> "MongoError", message |-> "bad query"] }
NoError == [name |-> "", message |-> ""]

Flags == {undefined, "1"}
\* a numeric query string parameter: missing, or a number
RawNumbers(S) == {[present |-> FALSE, n |-> 0]} \cup {[present |-> TRUE, n |-> n] : n \in S}

NoArgs ==
    [pageNumber |-> 0, pageLimit |-> 0, dictionaryId |-> undefined,
     searchSemDoms |-> undefined, semDomAbbrev |-> undefinedStr, lang |-> undefined,
     text |-> undefinedStr, countTotalOnly |-> undefined, partOfSpeech |-> undefined,
     mainLang |-> undefined, matchPartial |-> undefined, matchAccents |-> undefined,
     language |-> undefined]

NoEntry ==
    [id |-> 0, dictionaryId |-> undefined, partOfSpeech |-> undefined,
     mainHeadWord |-> <<>>, definitionOrGloss |-> <<>>,
     semDomAbbrev |-> <<>>, semDomName |-> <<>>]

NoProbe == [args |-> NoArgs, entry |-> NoEntry]

NoCall == [branch |-> "none", op |-> "none", stages |-> <<>>, collation |-> NoCollation,
           paged |-> FALSE, skip |-> 0, limit |-> 0]

\* Math.max(Number(pageNumber ?? '1'), 1)
PageNumber(raw) == Max(IF raw.present THEN raw.n ELSE 1, 1)

\* Math.min(Math.max(Number(pageLimit ?? DB_MAX_DOCUMENTS_PER_CALL), 1), DB_MAX_DOCUMENTS_PER_CALL)
PageLimit(raw) ==
    Min(Max(IF raw.present THEN raw.n ELSE DB_MAX_DOCUMENTS_PER_CALL, 1),
        DB_MAX_DOCUMENTS_PER_CALL)

----------------------------------------------------------------------------
(* handler and searchEntries, one action per run between two awaits *)

ConnIdle ==
    UNCHANGED <<cachedDb, connected, nextClient, cpc, seen, ret, opened>>
ProbeIdle == UNCHANGED <<probe, matched>>
SearchIdle == UNCHANGED <<store, args, pc, call, nCalls, response, raised>>

\* handler up to its await on searchEntries, searchEntries up to its await on connectToDB
Handler ==
    /\ pc = "handler"
    /\ \E text \in {undefinedStr, <<>>, <<"a">>},
          mainLang \in {undefined, "fr"},
          lang \in {undefined, "fr", "en"},
          partOfSpeech \in {undefined, "n"},
          matchPartial \in Flags, matchAccents \in Flags,
          semDomAbbrev \in {undefinedStr, <<"1">>},
          searchSemDoms \in Flags, countTotalOnly \in Flags,
          stemmingLanguage \in {undefined},
          pageNumber \in RawNumbers(0..MaxPageNumber),
          pageLimit \in RawNumbers({0, 1, 2, DB_MAX_DOCUMENTS_PER_CALL + 1}) :
        IF ~TruthyStr(text)
        THEN /\ response' = BadRequest
             /\ pc' = "done"
             /\ UNCHANGED args
        ELSE /\ args' = [pageNumber |-> PageNumber(pageNumber),
                         pageLimit |-> PageLimit(pageLimit),
                         dictionaryId |-> "d1",
                         searchSemDoms |-> searchSemDoms,
                         semDomAbbrev |-> semDomAbbrev,
                         lang |-> lang,
                         text |-> text,
                         countTotalOnly |-> countTotalOnly,
                         partOfSpeech |-> partOfSpeech,
                         mainLang |-> mainLang,
                         matchPartial |-> matchPartial,
                         matchAccents |-> matchAccents,
                         language |-> IF stemmingLanguage = undefined
                                      THEN "none" ELSE stemmingLanguage]
             /\ pc' = "connect"
             /\ UNCHANGED response
    /\ UNCHANGED <<store, call, nCalls, raised>>
    /\ ConnIdle /\ ProbeIdle

\* connectToDB resolved: searchEntries builds its query and issues it
ConnectResolved ==
    /\ pc = "connect"
    /\ call' = SearchCall(args)
    /\ nCalls' = nCalls + 1
    /\ pc' = "query"
    /\ UNCHANGED <<store, args, response, raised>>
    /\ ConnIdle /\ ProbeIdle

\* Catch that tries the whole search again instead of returning
CatchRetry(err) ==
    /\ raised' = err
    /\ response' = response
    /\ pc' = "connect"

\* catch (error): Response.failure({ errorType: error.name, errorMessage: error.message })
Catch(err) ==
    /\ raised' = err
    /\ response' = Failure(err)
    /\ pc' = "done"

\* connectToDB rejected
ConnectRejected ==
    /\ pc = "connect"
    /\ \E err \in Errors : Catch(err)
    /\ UNCHANGED <<store, args, call, nCalls>>
    /\ ConnIdle /\ ProbeIdle

\* the store answered: searchEntries shapes the result and returns
StoreAnswers ==
    /\ pc = "query"
    /\ response' = SearchResponse(args, Execute(call, store))
    /\ pc' = "done"
    /\ UNCHANGED <<store, args, call, nCalls, raised>>
    /\ ConnIdle /\ ProbeIdle

\* countDocuments or toArray rejected
StoreFails ==
    /\ pc = "query"
    /\ \E err \in Errors : Catch(err)
    /\ UNCHANGED <<store, args, call, nCalls>>
    /\ ConnIdle /\ ProbeIdle

ConnInitIdle ==
    /\ cachedDb = 0 /\ connected = {} /\ nextClient = 1
    /\ cpc = <<>> /\ seen = <<>> /\ ret = <<>> /\ opened = <<>>
ProbeInitIdle == probe = NoProbe /\ matched = "idle"
SearchInitIdle ==
    /\ store = <<>> /\ args = NoArgs /\ pc = "idle" /\ call = NoCall /\ nCalls = 0
    /\ response = NoResponse /\ raised = NoError

Init ==
    /\ store \in Stores
    /\ args = NoArgs
    /\ pc = "handler"
    /\ call = NoCall
    /\ nCalls = 0
    /\ response = NoResponse
    /\ raised = NoError
    /\ ConnInitIdle /\ ProbeInitIdle

Next ==
    \/ Handler
    \/ ConnectResolved
    \/ ConnectRejected
    \/ StoreAnswers
    \/ StoreFails

Spec == Init /\ [][Next]_vars

TypeOK ==
    /\ pc \in {"handler", "connect", "query", "done"}
    /\ nCalls \in 0..1
    /\ response.kind \in {"none", "Success", "NotFound", "Failure", "BadRequest"}

----------------------------------------------------------------------------
(* Properties of searchEntries, checked under Spec *)

Finished == pc = "done" /\ response.kind # "BadRequest"
Answered == Finished /\ raised = NoError
CountOnly == args.countTotalOnly = "1"

\* the strategy the request parameters select, by precedence
ExpectedStrategy(a) ==
    IF a.searchSemDoms = "1" THEN "semDom"
    ELSE IF a.matchPartial = "1" THEN "partial"
    ELSE IF a.lang # undefined /\ a.lang # "" THEN "fulltextScoped"
    ELSE "fulltextUnscoped"

\* the strategy an issued store operation belongs to, read off the operation
StrategyOf(c) ==
    CASE c.op = "aggregate" /\ Len(c.stages) = 2 -> "fulltextScoped"
      [] c.op \in {"find", "countDocuments"} /\ Len(c.stages) = 1
           /\ c.stages[1].clause.kind \in
                 {"semDomAbbrevElemMatch", "semDomAbbrevValue", "semDomNameValue"} -> "semDom"
      [] c.op \in {"find", "countDocuments"} /\ Len(c.stages) = 1
           /\ c.stages[1].clause.kind \in {"elemMatch", "orValue"} -> "partial"
      [] c.op \in {"find", "countDocuments"} /\ Len(c.stages) = 1
           /\ c.stages[1].clause.kind = "text" -> "fulltextUnscoped"
      [] OTHER -> "none"

\* C1: every request that reaches the store issues exactly one operation, and
\* it is the operation of the strategy chosen by precedence: semantic-domain
\* iff searchSemDoms, else partial-match iff matchPartial, else language-scoped
\* full-text iff lang, else unscoped full-text.
C1_StrategyPrecedence ==
    /\ nCalls <= 1
    /\ nCalls = 1 => /\ StrategyOf(call) = ExpectedStrategy(args)
                     /\ call.branch = ExpectedStrategy(args)
    /\ Answered => nCalls = 1

C1_Witness ==
    /\ Answered
    /\ args.searchSemDoms = "1" /\ args.matchPartial = "1" /\ args.lang = "fr"
    /\ StrategyOf(call) = "semDom"

\* C2: a non-count request whose store result is empty ends in NotFound, in
\* every strategy, and never in Success with an empty entry list.
C2_EmptyIsNotFound ==
    (Answered /\ ~CountOnly) =>
        /\ Len(Execute(call, store).docs) = 0 => response.kind = "NotFound"
        /\ ~(response.kind = "Success" /\ response.payload = "entries"
             /\ response.entries = <<>>)

\* C3: a count-only request that meets no error ends in Success({count}) with
\* an integer count, also when the count is zero, never in NotFound and never
\* with an entry list.
C3_CountOnlySuccess ==
    (Answered /\ CountOnly) =>
        /\ response.kind = "Success"
        /\ response.payload = "count"
        /\ response.count \in Nat
        /\ response.entries = <<>>

C3_Witness ==
    /\ Answered /\ CountOnly
    /\ response.count = 0
    /\ call.branch = "fulltextScoped"

\* C5: an error raised by connecting or by the store operation ends the
\* invocation in Failure carrying the error's name and message, with no
\* entries and no count, and no store operation is issued after the error;
\* every invocation ends in one of Success, NotFound and Failure.
C5_ErrorsBecomeFailure ==
    /\ Finished => response.kind \in {"Success", "NotFound", "Failure"}
    /\ (pc = "done" /\ raised # NoError) =>
          /\ response.kind = "Failure"
          /\ response.errorType = raised.name
          /\ response.errorMessage = raised.message
          /\ response.payload = "error"
          /\ response.entries = <<>> /\ response.count = 0
    /\ raised # NoError => pc = "done" /\ nCalls <= 1
    /\ Answered => response.kind # "Failure"

C5_Witness ==
    /\ pc = "done" /\ nCalls = 1 /\ call.op = "aggregate"
    /\ raised.name = "MongoError" /\ response.kind = "Failure"

\* the slice of s that starts at offset off and has at most n elements
Slice(s, off, n) == SubSeq(s, off + 1, Min(off + n, Len(s)))

\* C6: a non-count request returns the contiguous slice of the ordered match
\* sequence that starts at offset (pageNumber - 1) * pageLimit and has at most
\* pageLimit entries.
C6_PageIsSlice ==
    (Answered /\ ~CountOnly) =>
        LET all == MatchSeq(call.stages, call.collation, store)
            slice == Slice(all, (args.pageNumber - 1) * args.pageLimit, args.pageLimit)
        IN /\ args.pageNumber >= 1
           /\ args.pageLimit \in 1..DB_MAX_DOCUMENTS_PER_CALL
           /\ response.kind \in {"Success", "NotFound"}
           /\ response.kind = "Success" => response.entries = slice
           /\ response.kind = "NotFound" => slice = <<>>

C6_Witness ==
    /\ Answered /\ ~CountOnly
    /\ args.pageNumber = 2 /\ args.pageLimit = 1
    /\ Len(MatchSeq(call.stages, call.collation, store)) = 2
    /\ response.entries = <<MatchSeq(call.stages, call.collation, store)[2]>>

\* C8: in partial-match search the count-only call carries the same filter and
\* the same collation (locale from lang when recognized, else the default;
\* strength from matchAccents) as the find of the same request parameters.
C8_CountSameFilterAndCollation ==
    (nCalls = 1 /\ call.branch = "partial" /\ call.op = "countDocuments") =>
        LET find == PartialCall([args EXCEPT !.countTotalOnly = undefined])
        IN /\ call.stages = find.stages
           /\ call.collation = find.collation
           /\ call.collation.locale =
                 (IF args.lang \in DB_COLLATION_LOCALES THEN args.lang
                  ELSE DB_COLLATION_LOCALE_DEFAULT_FOR_INSENSITIVITY)
           /\ call.collation.strength =
                 (IF args.matchAccents = "1" THEN DB_COLLATION_STRENGTH_FOR_SENSITIVITY
                  ELSE DB_COLLATION_STRENGTH_FOR_CASE_INSENSITIVITY)

\* C9: the count of a count-only request does not depend on pageNumber and
\* pageLimit: it is the number of all matches of the request's filter, and in
\* language-scoped full-text search the length of the whole result of the
\* two-stage pipeline, with no skip or limit applied.
C9_CountIgnoresPagination ==
    (Answered /\ CountOnly) =>
        LET first == [args EXCEPT !.pageNumber = 1, !.pageLimit = DB_MAX_DOCUMENTS_PER_CALL]
        IN /\ ~call.paged
           /\ call.stages = SearchCall(first).stages
           /\ response.count = Len(MatchSeq(call.stages, call.collation, store))
           /\ response = SearchResponse(first, Execute(SearchCall(first), store))

C9_Witness ==
    /\ Answered /\ CountOnly
    /\ call.branch = "fulltextScoped"
    /\ args.pageNumber = 2 /\ args.pageLimit = 1
    /\ response.count = 2

----------------------------------------------------------------------------
(* The semantic domain abbreviation filter applied to one document *)

AbbrevAlphabet == {"0", "1", "2", "."}
AbbrevQueries == SeqsUpTo(AbbrevAlphabet, MaxQueryLen) \ {<<>>}
AbbrevValues == SeqsUpTo(AbbrevAlphabet, MaxAbbrevLen)

InitAbbrev ==
    /\ probe \in
         { [args |-> [NoArgs EXCEPT !.dictionaryId = "d1", !.text = <<"a">>,
                                    !.searchSemDoms = "1", !.semDomAbbrev = q,
                                    !.lang = l, !.pageNumber = 1,
                                    !.pageLimit = DB_MAX_DOCUMENTS_PER_CALL,
                                    !.language = "none"],
            entry |-> [NoEntry EXCEPT !.id = 1, !.dictionaryId = "d1",
                                      !.partOfSpeech = "n",
                                      !.semDomAbbrev = <<Tagged(tl, v)>>]] :
             q \in AbbrevQueries, v \in AbbrevValues,
             l \in {undefined, "en"}, tl \in {"en", "fr"} }
    /\ matched = "pending"
    /\ SearchInitIdle /\ ConnInitIdle

\* the store tests the document against the filter of the call
ApplyFilter(c) ==
    /\ matched = "pending"
    /\ matched' = IF FilterMatches(c.stages[1], probe.entry, c.collation)
                  THEN "match" ELSE "noMatch"
    /\ UNCHANGED probe
    /\ SearchIdle /\ ConnIdle

ApplySemDomFilter == ApplyFilter(SemDomCall(probe.args))

NextAbbrev == ApplySemDomFilter

SpecAbbrev == InitAbbrev /\ [][NextAbbrev]_vars

\* C4: with a non-empty semDomAbbrev a, the filter matches an abbreviation v
\* iff v equals a or v is a dotted extension of a (of the requested language
\* when lang is given): "1" matches "1", "1.2", "1.2.3" and not "10" or "2".
C4_AbbrevMatchesExactOrDotted ==
    matched # "pending" =>
        LET a == probe.args.semDomAbbrev
            tagged == probe.entry.semDomAbbrev[1]
            langOk == probe.args.lang = undefined \/ tagged.lang = probe.args.lang
        IN (matched = "match") <=>
              (langOk /\ (tagged.value = a \/ IsDottedExtension(tagged.value, a)))

----------------------------------------------------------------------------
(* The partial match filter applied to one document *)

ProbeTexts == SeqsUpTo({"a", "."}, MaxQueryLen) \ {<<>>}
ProbeValues == {<<"b", "A">>, <<"b">>}
ProbeTagged ==
    SeqsUpTo({Tagged(l, v) : l \in {"fr", "en"}, v \in ProbeValues}, MaxTagged)

InitPartial ==
    /\ probe \in
         { [args |-> [NoArgs EXCEPT !.dictionaryId = "d1", !.text = t,
                                    !.matchPartial = "1", !.lang = l, !.mainLang = m,
                                    !.pageNumber = 1,
                                    !.pageLimit = DB_MAX_DOCUMENTS_PER_CALL,
                                    !.language = "none"],
            entry |-> [NoEntry EXCEPT !.id = 1, !.dictionaryId = d,
                                      !.partOfSpeech = "n",
                                      !.mainHeadWord = h,
                                      !.definitionOrGloss = g]] :
             t \in ProbeTexts, l \in {undefined, "fr", "en"}, m \in {undefined, "fr"},
             d \in {"d1", "d2"}, h \in ProbeTagged, g \in ProbeTagged }
    /\ matched = "pending"
    /\ SearchInitIdle /\ ConnInitIdle

ApplyPartialFilter == ApplyFilter(PartialCall(probe.args))

NextPartial == ApplyPartialFilter

SpecPartial == InitPartial /\ [][NextPartial]_vars

\* some element of the tagged array has the language (when one is asked for)
\* and a value that contains text
SomeElementContains(arr, lang, text) ==
    \E i \in DOMAIN arr :
        /\ lang = undefined \/ arr[i].lang = lang
        /\ ContainsIgnoreCase(arr[i].value, text)

\* C7: in partial-match search an entry of the dictionary matches iff, with
\* lang set, one single element of the selected field (headword when mainLang
\* equals lang, definition/gloss otherwise) has language lang and a value
\* containing text as a case-insensitive substring; with lang unset, iff any
\* headword or definition/gloss value contains text.
C7_PartialMatchIsSubstring ==
    (matched # "pending" /\ probe.entry.dictionaryId = probe.args.dictionaryId) =>
        LET a == probe.args
            e == probe.entry
        IN (matched = "match") <=>
              IF a.lang # undefined
              THEN IF a.mainLang # undefined /\ a.mainLang = a.lang
                   THEN SomeElementContains(e.mainHeadWord, a.lang, a.text)
                   ELSE SomeElementContains(e.definitionOrGloss, a.lang, a.text)
              ELSE \/ SomeElementContains(e.mainHeadWord, undefined, a.text)
                   \/ SomeElementContains(e.definitionOrGloss, undefined, a.text)

----------------------------------------------------------------------------
(* mongo.ts: concurrent connectToDB calls sharing cachedDb.  Client 0 stands
   for the unset cachedDb. *)

Callers == 1..MaxCalls

InitConn ==
    /\ cachedDb = 0
    /\ connected = {}
    /\ nextClient = 1
    /\ cpc = [p \in Callers |-> "idle"]
    /\ seen = [p \in Callers |-> "none"]
    /\ ret = [p \in Callers |-> 0]
    /\ opened = [p \in Callers |-> 0]
    /\ SearchInitIdle /\ ProbeInitIdle

\* cachedDb && cachedDb.isConnected()
CacheUsable == cachedDb # 0 /\ cachedDb \in connected

\* ConnectToDBStart without the cache test
ConnectToDBStartNoCache(p) ==
    /\ cpc[p] = "idle"
    /\ seen' = [seen EXCEPT ![p] = "miss"]
    /\ ret' = [ret EXCEPT ![p] = 0]
    /\ cpc' = [cpc EXCEPT ![p] = "connecting"]
    /\ opened' = [opened EXCEPT ![p] = 1]
    /\ UNCHANGED <<cachedDb, connected, nextClient>>
    /\ SearchIdle /\ ProbeIdle

\* connectToDB from its entry to its first await or its return
ConnectToDBStart(p) ==
    /\ cpc[p] = "idle"
    /\ IF CacheUsable
       THEN /\ seen' = [seen EXCEPT ![p] = "hit"]
            /\ ret' = [ret EXCEPT ![p] = cachedDb]
            /\ cpc' = [cpc EXCEPT ![p] = "returned"]
            /\ opened' = [opened EXCEPT ![p] = 0]
       ELSE /\ seen' = [seen EXCEPT ![p] = "miss"]
            /\ ret' = [ret EXCEPT ![p] = 0]
            /\ cpc' = [cpc EXCEPT ![p] = "connecting"]
            /\ opened' = [opened EXCEPT ![p] = 1]
    /\ UNCHANGED <<cachedDb, connected, nextClient>>
    /\ SearchIdle /\ ProbeIdle

\* MongoClient.connect resolved: cachedDb = client; return client
ConnectToDBResume(p) ==
    /\ cpc[p] = "connecting"
    /\ nextClient <= MaxClients
    /\ cachedDb' = nextClient
    /\ ret' = [ret EXCEPT ![p] = nextClient]
    /\ connected' = connected \cup {nextClient}
    /\ nextClient' = nextClient + 1
    /\ cpc' = [cpc EXCEPT ![p] = "returned"]
    /\ UNCHANGED <<seen, opened>>
    /\ SearchIdle /\ ProbeIdle

\* MongoClient.connect rejected: the call throws, cachedDb is left alone
ConnectToDBThrows(p) ==
    /\ cpc[p] = "connecting"
    /\ cpc' = [cpc EXCEPT ![p] = "failed"]
    /\ UNCHANGED <<cachedDb, connected, nextClient, seen, ret, opened>>
    /\ SearchIdle /\ ProbeIdle

\* a client loses its connection
Disconnect ==
    /\ \E c \in connected : connected' = connected \ {c}
    /\ UNCHANGED <<cachedDb, nextClient, cpc, seen, ret, opened>>
    /\ SearchIdle /\ ProbeIdle

\* the caller is done with the call; a later invocation calls connectToDB again
NextInvocation(p) ==
    /\ cpc[p] \in {"returned", "failed"}
    /\ cpc' = [cpc EXCEPT ![p] = "idle"]
    /\ seen' = [seen EXCEPT ![p] = "none"]
    /\ ret' = [ret EXCEPT ![p] = 0]
    /\ opened' = [opened EXCEPT ![p] = 0]
    /\ UNCHANGED <<cachedDb, connected, nextClient>>
    /\ SearchIdle /\ ProbeIdle

NextConn ==
    \/ \E p \in Callers : ConnectToDBStart(p)
    \/ \E p \in Callers : ConnectToDBResume(p)
    \/ \E p \in Callers : ConnectToDBThrows(p)
    \/ Disconnect
    \/ \E p \in Callers : NextInvocation(p)

SpecConn == InitConn /\ [][NextConn]_vars

\* C10: a call that starts while the cached client is connected returns that
\* client and opens no connection; MongoClient.connect is invoked only by a
\* call that saw no connected cached client; when it completes, the cache holds
\* the client the call returns.
C10_CacheReuse ==
    [][\A p \in Callers :
          /\ (cpc[p] = "idle" /\ cpc'[p] # "idle" /\ CacheUsable) =>
                /\ cpc'[p] = "returned"
                /\ ret'[p] = cachedDb
                /\ opened'[p] = 0
                /\ cachedDb' = cachedDb /\ nextClient' = nextClient
          /\ (cpc[p] = "idle" /\ opened'[p] > 0) => ~CacheUsable
          /\ (cpc[p] = "connecting" /\ cpc'[p] = "returned") =>
                /\ cachedDb' = ret'[p]
                /\ ret'[p] \in connected'
          /\ (cpc'[p] = "returned" /\ seen'[p] = "hit") => opened'[p] = 0
      ]_vars

\* two calls overlapped on an empty cache and a third one reused the cache
C10_Witness ==
    \E p, q, r \in Callers :
        /\ cpc[p] = "returned" /\ seen[p] = "miss"
        /\ cpc[q] = "returned" /\ seen[q] = "miss" /\ ret[q] # ret[p]
        /\ cpc[r] = "returned" /\ seen[r] = "hit" /\ ret[r] = cachedDb
        /\ opened[r] = 0

====
